---- MODULE Spec2Model ----
(***************************************************************************)
(* State-machine model of the chat / feedback service of this repository:  *)
(*   backend/routers/chat.py      chat, chat_stream, get_history,          *)
(*                                delete_history, cleanup_old_sessions     *)
(*   backend/routers/feedback.py  submit_feedback                          *)
(*   backend/database/models.py   the feedback_interactions table          *)
(*                                                                         *)
(* Optional values (Python None / a value) are sequences of length 0 / 1.  *)
(* Calls into the database session, the validator, the retriever and the   *)
(* LLM factory are external: whether each one raises is an input of the    *)
(* action that makes the call.  Values of uuid4() and of the clock are     *)
(* inputs drawn from small sets.                                           *)
(***************************************************************************)
EXTENDS Integers, Sequences, FiniteSets

VARIABLES
    feedback_interactions,  \* rows of the table (committed state)
    conversations,          \* chat.py: the in-memory session map
    clock,                  \* seconds, the value datetime.now() returns
    ticks,                  \* number of clock advances so far
    pending_cleanups,       \* background tasks added and not yet run
    chat_calls,             \* number of POST /api/chat/ calls handled
    issued,                 \* message_id -> number of 200 chat responses carrying it
    recorded,               \* the turns answered 200 whose db.commit() returned
    last_feedback,          \* message_id -> last acknowledged feedback submission
    inflight,               \* the chat call between its lines 99 and 101, if any
    db_open,                \* sessions get_db has opened and not closed
    lastCall                \* the operation handled last, with its answer

vars == <<feedback_interactions, conversations, clock, ticks, pending_cleanups,
          chat_calls, issued, recorded, last_feedback, inflight, db_open,
          lastCall>>

----------------------------------------------------------------------------
(* Bounds of the model *)

NumMsgIds == 2      \* distinct values of uuid4().hex[:12] for a message_id
NumRecIds == 2      \* distinct values of str(uuid4()) for a row id
NumSessIds == 1     \* distinct values of uuid4().hex[:12] for a session id
NumEntryIds == 1    \* distinct values of uuid4().hex[:8] for a history entry id
MaxChats == 2       \* chat calls in one behaviour
MaxTicks == 1       \* clock advances in one behaviour
MaxHistory == 7     \* entries of the conversation_history of a request

(* Program constants *)

SessionTTL == 86400 \* cleanup_old_sessions: seconds after which a session expires
HistoryWindow == 6  \* chat, chat_stream: entries of conversation_history used

----------------------------------------------------------------------------
(* Optional values *)

None == <<>>
Some(x) == <<x>>


----------------------------------------------------------------------------
(* Identifiers *)

MsgId(n) == <<"msg_", n>>               \* f"msg_{uuid.uuid4().hex[:12]}"
GenSessionId(n) == <<"session_", n>>    \* f"session_{uuid.uuid4().hex[:12]}"
UserEntryId(n) == <<"user_", n>>        \* f"user_{uuid.uuid4().hex[:8]}"
ClientId(s) == <<s, 0>>                 \* an identifier string sent by a client

EmptyStr == ClientId("")

\* (mutant) the value the client sent is ignored
OrDefault_ignoring(o, d) == d

\* Python's `x or default` for an Optional[str]: None and "" are falsy
OrDefault(o, d) == IF o = None \/ o = Some(EmptyStr) THEN d ELSE o[1]

MsgIds == {MsgId(n) : n \in 1..NumMsgIds}
RecIds == 1..NumRecIds
UnknownMsgId == ClientId("nope")
ClientSession == ClientId("s1")
ClientUser == ClientId("u1")
Anonymous == ClientId("anonymous")

\* datetime.isoformat() and datetime.fromisoformat()
isoformat(t) == <<"iso", t>>
fromisoformat(s) == s[2]

----------------------------------------------------------------------------
(* backend/database/models.py: the feedback_interactions table *)

\* (mutant) the row is stored under the session id, not the message_id
FeedbackInteraction_keyed_by_session(id, user_id, session_id, message_id, now, question, llm) ==
    [id |-> id,
     user_id |-> user_id,
     session_id |-> session_id,
     message_id |-> session_id,
     timestamp |-> now,
     question |-> question,
     response |-> llm.content,
     provider_used |-> llm.provider,
     tokens_used |-> llm.tokens_used,
     feedback_type |-> None,
     feedback_comment |-> None,
     feedback_timestamp |-> None]

\* FeedbackInteraction(...) as chat builds it, with the column defaults
\* (id, timestamp) the INSERT fills in and the feedback columns NULL
FeedbackInteraction(id, user_id, session_id, message_id, now, question, llm) ==
    [id |-> id,
     user_id |-> user_id,
     session_id |-> session_id,
     message_id |-> message_id,
     timestamp |-> now,
     question |-> question,
     response |-> llm.content,
     provider_used |-> llm.provider,
     tokens_used |-> llm.tokens_used,
     feedback_type |-> None,
     feedback_comment |-> None,
     feedback_timestamp |-> None]

\* the columns that are not feedback columns
Immutable(r) ==
    [id |-> r.id, user_id |-> r.user_id, session_id |-> r.session_id,
     message_id |-> r.message_id, timestamp |-> r.timestamp,
     question |-> r.question, response |-> r.response,
     provider_used |-> r.provider_used, tokens_used |-> r.tokens_used]

\* (mutant) the table without unique=True on message_id
ViolatesConstraints_pk_only(table, row) ==
    \E r \in table : r.id = row.id

\* primary_key=True on id, unique=True on message_id: the INSERT is refused
\* (IntegrityError) when either value is already in the table
ViolatesConstraints(table, row) ==
    \E r \in table : r.id = row.id \/ r.message_id = row.message_id

\* (mutant) the query without its filter
QueryFirstRow(table, m) ==
    IF table = {} THEN None ELSE Some(CHOOSE r \in table : TRUE)

\* db.query(FeedbackInteraction).filter(message_id == m).first()
QueryByMessageId(table, m) ==
    LET hits == {r \in table : r.message_id = m}
    IN  IF hits = {} THEN None ELSE Some(CHOOSE r \in hits : TRUE)

----------------------------------------------------------------------------
(* Inputs *)

FeedbackTypes == {"thumbs_up", "thumbs_down", "neutral"}
Comments == {None, Some("c1")}

\* FeedbackSubmit bodies
FeedbackSubmits ==
    [message_id : MsgIds \cup {UnknownMsgId},
     feedback_type : FeedbackTypes,
     feedback_comment : Comments]

\* which database call of submit_feedback raises, among those the call
\* reaches: none, the query of line 53, the commit of line 65; and whether
\* the rollback of line 80 raises then
FeedbackFaults(table, fb) ==
    IF fb.feedback_type \notin {"thumbs_up", "thumbs_down"}
    THEN {[db |-> "none", rollback |-> FALSE]}
    ELSE {[db |-> "none", rollback |-> FALSE]}
         \cup [db : IF \E r \in table : r.message_id = fb.message_id
                     THEN {"query", "commit"} ELSE {"query"},
               rollback : BOOLEAN]

NoCall == [op |-> "none", status |-> 0]

Messages == {"q1"}

\* a conversation_history of n entries, all different
HistoryOf(n) ==
    [i \in 1..n |-> [role |-> IF i % 2 = 1 THEN "user" ELSE "assistant",
                     content |-> <<"h", i>>]]

\* conversation_history: null, or a list of ChatMessage (the default is [])
Histories == {None} \cup {Some(HistoryOf(n)) : n \in 0..MaxHistory}

\* ChatRequest bodies (message, conversation_history, session_id, user_id,
\* provider)
ChatRequests ==
    [message : Messages,
     conversation_history : Histories,
     session_id : {None, Some(EmptyStr), Some(ClientSession)},
     user_id : {None, Some(ClientUser)},
     provider : {None, Some("gemini"), Some("other"), Some("third"),
                 Some("unknown")}]

ApologyText == "I apologize, but I couldn't generate a response. Please try again."
ProviderErrorText == "provider error"

----------------------------------------------------------------------------
(* llm/factory.py, llm/base.py: the providers and generate_with_fallback.  *)
(* Only GeminiProvider is among the sources; the factory follows the       *)
(* description of the provider fallback in the specification.              *)

\* the configured providers in priority order; the first is the default
Providers == <<"gemini", "other", "third">>
ProviderNames == {Providers[i] : i \in DOMAIN Providers}
DefaultProvider == Providers[1]

\* what one call of a provider does: it answers, it answers nothing, it
\* raises; "unavailable" is a provider the factory does not have
Outcomes == {"ok", "empty", "raises", "unavailable"}

\* the outcomes of the providers during one call; the factory has its default
ProviderOutcomes ==
    {o \in [ProviderNames -> Outcomes] : o[DefaultProvider] # "unavailable"}

\* the LLMResponse of one provider call (GeminiProvider.generate_response,
\* lines 62-83): the text with finish_reason "stop", the apology with
\* finish_reason "error" for an empty answer, an error text with
\* finish_reason "error" for an exception
ProviderResult(p, outcome) ==
    IF outcome = "ok"
    THEN [content |-> IF p = "gemini" THEN "a1" ELSE IF p = "other" THEN "a2" ELSE "a3",
          provider |-> p,
          tokens_used |-> IF p = "gemini" THEN None ELSE Some(7),
          finish_reason |-> "stop"]
    ELSE [content |-> IF outcome = "empty" THEN ApologyText ELSE ProviderErrorText,
          provider |-> p, tokens_used |-> None, finish_reason |-> "error"]

\* the LLMResponse values generate_with_fallback can hand to chat
LLMResponses ==
    {ProviderResult(p, o) : p \in ProviderNames, o \in {"ok", "empty", "raises"}}

\* the providers in the order the factory tries them: the preferred one
\* first when it is named and available, then the available ones in
\* priority order
TryOrder(preferred, outcomes) ==
    LET avail == SelectSeq(Providers, LAMBDA p : outcomes[p] # "unavailable")
        first == IF preferred # None /\ preferred[1] \in ProviderNames
                    /\ outcomes[preferred[1]] # "unavailable"
                 THEN preferred ELSE <<>>
    IN  first \o SelectSeq(avail, LAMBDA p : <<p>> # first)

\* the loop over the providers: the providers called, in order, from the
\* i-th on; it ends with the first one that answers or with the last one
RECURSIVE FallbackLoop(_, _, _)
FallbackLoop(order, outcomes, i) ==
    IF i >= Len(order) \/ outcomes[order[i]] = "ok"
    THEN <<order[i]>>
    ELSE <<order[i]>> \o FallbackLoop(order, outcomes, i + 1)

\* the providers generate_with_fallback calls, in order
Attempts(preferred, outcomes) ==
    FallbackLoop(TryOrder(preferred, outcomes), outcomes, 1)

\* factory.generate_with_fallback(messages, system_prompt, preferred_provider):
\* the answer of the first provider that answers, else the result of the
\* last one tried
generate_with_fallback(preferred, outcomes) ==
    LET tried == Attempts(preferred, outcomes)
        last == tried[Len(tried)]
    IN  ProviderResult(last, outcomes[last])

----------------------------------------------------------------------------
(* backend/database/connection.py: get_db, the dependency that gives chat  *)
(* and submit_feedback their database session                              *)

\* how a handler is left: by its return, by an HTTPException, by another
\* exception
HandlerOutcome(status, escaped) ==
    IF status = 200 THEN "return"
    ELSE IF escaped THEN "exception"
    ELSE "http_exception"

\* line 37, before the handler runs: db = SessionLocal()
SessionOpened(n) == n + 1

\* (mutant) get_db without try/finally: db.close() after the yield
SessionClosed_on_return(n, outcome) ==
    IF outcome = "return" THEN n - 1 ELSE n

\* lines 38-41, when the handler is left: db.close() in the finally clause
SessionClosed(n, outcome) == n - 1

----------------------------------------------------------------------------
(* backend/routers/feedback.py *)

\* (mutant) every feedback_type is accepted
ValidFeedbackTypes_any == {"thumbs_up", "thumbs_down", "neutral"}

\* line 46: the accepted values of feedback_type
ValidFeedbackTypes == {"thumbs_up", "thumbs_down"}

\* (mutant) the update leaves feedback_timestamp as it is
UpdateFeedback_untimed(r, fb, now) ==
    [r EXCEPT !.feedback_type = Some(fb.feedback_type),
              !.feedback_comment = fb.feedback_comment]

\* (mutant) sending the stored feedback_type again takes the feedback back
UpdateFeedback_toggling(r, fb, now) ==
    [r EXCEPT !.feedback_type = IF @ = Some(fb.feedback_type) THEN None
                                ELSE Some(fb.feedback_type),
              !.feedback_comment = fb.feedback_comment,
              !.feedback_timestamp = Some(now)]

\* (mutant) the update also restamps the row
UpdateFeedback_stamping(r, fb, now) ==
    [r EXCEPT !.feedback_type = Some(fb.feedback_type),
              !.feedback_comment = fb.feedback_comment,
              !.feedback_timestamp = Some(now),
              !.timestamp = now + 1]

\* (mutant) a submission without comment keeps the comment stored
UpdateFeedback_keeping_comment(r, fb, now) ==
    [r EXCEPT !.feedback_type = Some(fb.feedback_type),
              !.feedback_comment = IF fb.feedback_comment = None THEN @
                                   ELSE fb.feedback_comment,
              !.feedback_timestamp = Some(now)]

\* lines 60-63: the three assignments to the row found
UpdateFeedback(r, fb, now) ==
    [r EXCEPT !.feedback_type = Some(fb.feedback_type),
              !.feedback_comment = fb.feedback_comment,
              !.feedback_timestamp = Some(now)]

\* (mutant) the row is looked up before the type is checked
FeedbackStatus_lookup_first(fb, found, db) ==
    IF db = "query" THEN 500
    ELSE IF found = None THEN 404
    ELSE IF fb.feedback_type \notin ValidFeedbackTypes THEN 400
    ELSE IF db = "commit" THEN 500
    ELSE 200

\* lines 44-81: the HTTP status of the answer.  The type is checked first
\* (400), then the row is looked up (404 when there is none); a database
\* call that raises is answered 500 by the handler of line 78 (and by the
\* server when the rollback of line 80 raises as well)
FeedbackStatus(fb, found, db) ==
    IF fb.feedback_type \notin ValidFeedbackTypes THEN 400
    ELSE IF db = "query" THEN 500
    ELSE IF found = None THEN 404
    ELSE IF db = "commit" THEN 500
    ELSE 200

\* bookkeeping of a submit_feedback call; an acknowledged submission keeps
\* the comment sent and the values it replaced
FeedbackAnswer(status, fb, db, found) ==
    lastCall' =
        IF status = 200
        THEN [op |-> "submit_feedback", status |-> status,
              message_id |-> fb.message_id,
              feedback_type |-> fb.feedback_type, db |-> db,
              feedback_comment |-> fb.feedback_comment,
              replaced_type |-> found[1].feedback_type,
              replaced_comment |-> found[1].feedback_comment]
        ELSE [op |-> "submit_feedback", status |-> status,
              message_id |-> fb.message_id,
              feedback_type |-> fb.feedback_type, db |-> db]

\* POST /api/feedback/submit
submit_feedback(fb, env) ==
    LET found == QueryByMessageId(feedback_interactions, fb.message_id)
        status == FeedbackStatus(fb, found, env.db)
    IN
    /\ inflight = None
    /\ UNCHANGED <<conversations, clock, ticks, pending_cleanups, chat_calls, issued, recorded,
                   inflight>>
    /\ FeedbackAnswer(status, fb, env.db, found)
    /\ db_open' = SessionClosed(SessionOpened(db_open),
                                HandlerOutcome(status, env.rollback))
    /\ IF status = 200
       THEN \* lines 61-65: the row is updated and committed
            /\ feedback_interactions' =
                   (feedback_interactions \ {found[1]})
                       \cup {UpdateFeedback(found[1], fb, clock)}
            /\ last_feedback' =
                   [last_feedback EXCEPT ![fb.message_id] =
                       Some([feedback_type |-> fb.feedback_type,
                             feedback_comment |-> fb.feedback_comment])]
       ELSE \* nothing was written, or the update was rolled back
            UNCHANGED <<feedback_interactions, last_feedback>>

----------------------------------------------------------------------------
(* backend/routers/chat.py *)

\* (mutant) a chat call renews the session it uses
InitSession_renewing(conv, sid, now) ==
    [k \in DOMAIN conv \cup {sid} |->
        IF k = sid
        THEN [created_at |-> isoformat(now),
              history |-> IF sid \in DOMAIN conv THEN conv[sid].history
                          ELSE <<>>,
              message_count |-> IF sid \in DOMAIN conv
                                THEN conv[sid].message_count ELSE 0]
        ELSE conv[k]]

\* lines 93-98: the entry of a session is created on first use
InitSession(conv, sid, now) ==
    IF sid \in DOMAIN conv
    THEN conv
    ELSE [k \in DOMAIN conv \cup {sid} |->
            IF k = sid
            THEN [created_at |-> isoformat(now), history |-> <<>>,
                  message_count |-> 0]
            ELSE conv[k]]

\* (mutant) the reply is stored under an id of its own
AppendTurn_own_id(conv, sid, mid, question, llm, now, u) ==
    [conv EXCEPT
        ![sid].history = @ \o
            <<[id |-> UserEntryId(u), role |-> "user", content |-> question,
               timestamp |-> isoformat(now)],
              [id |-> UserEntryId(u), role |-> "assistant", content |-> llm.content,
               timestamp |-> isoformat(now), provider |-> llm.provider]>>,
        ![sid].message_count = @ + 1]

\* (mutant) the turn is appended and not counted
AppendTurn_uncounted(conv, sid, mid, question, llm, now, u) ==
    [conv EXCEPT
        ![sid].history = @ \o
            <<[id |-> UserEntryId(u), role |-> "user", content |-> question,
               timestamp |-> isoformat(now)],
              [id |-> mid, role |-> "assistant", content |-> llm.content,
               timestamp |-> isoformat(now), provider |-> llm.provider]>>]

\* lines 245-260: the user message and the reply are appended
AppendTurn(conv, sid, mid, question, llm, now, u) ==
    [conv EXCEPT
        ![sid].history = @ \o
            <<[id |-> UserEntryId(u), role |-> "user", content |-> question,
               timestamp |-> isoformat(now)],
              [id |-> mid, role |-> "assistant", content |-> llm.content,
               timestamp |-> isoformat(now), provider |-> llm.provider]>>,
        ![sid].message_count = @ + 1]

\* (mutant) every response is reported as a success
ChatResponse_always_success(llm, sid, mid) ==
    [response |-> llm.content,
     session_id |-> sid,
     success |-> TRUE,
     provider_used |-> llm.provider,
     tokens_used |-> llm.tokens_used,
     message_id |-> mid]

\* lines 270-278
ChatResponse(llm, sid, mid) ==
    [response |-> llm.content,
     session_id |-> sid,
     success |-> llm.finish_reason # "error",
     provider_used |-> llm.provider,
     tokens_used |-> llm.tokens_used,
     message_id |-> mid]

\* the call of lines 188-210 at which the persistence block raises, "none"
\* when it runs to its end: the INSERT of db.flush() is refused when a
\* constraint of the table is violated
PersistFault(table, row, env) ==
    IF env.db = "add" THEN "add"
    ELSE IF env.db = "flush" \/ ViolatesConstraints(table, row) THEN "flush"
    ELSE env.db

\* (mutant) the rollback of line 238 undoes a commit that has returned
Persist_undone_by_rollback(table, row, pf) ==
    IF pf = "none" THEN table \cup {row} ELSE table

\* (mutant) a commit that raises leaves the row in the table
Persist_on_failed_commit(table, row, pf) ==
    IF pf \in {"none", "refresh", "verify", "commit"} THEN table \cup {row}
    ELSE table

\* the table after the persistence block: the row is in it once db.commit()
\* has returned, whatever happens afterwards
Persist(table, row, pf) ==
    IF pf \in {"none", "refresh", "verify"} THEN table \cup {row} ELSE table

\* the fault classes the bookkeeping keeps
PersistClass(pf) ==
    IF pf = "none" THEN "none"
    ELSE IF pf \in {"add", "flush", "commit"} THEN "before_commit"
    ELSE "after_commit"

\* (mutant) an exception raised inside the handler of line 226 leaves chat
\* unconverted
HandlerStatus_inner_escapes(fault, rb) ==
    IF rb THEN 0 ELSE 500

\* lines 280-287: every raise site of lines 73-278, the handler of line 226
\* included, lies inside the try of line 73, whose handler raises
\* HTTPException(500); 0 stands for an exception that leaves chat unconverted
HandlerStatus(fault, rb) ==
    500

\* the external calls chat has made when it is left by the given fault:
\* the validator (line 75), the calls of lines 103-135 ("retrieve"), the
\* factory's generate_with_fallback (line 139)
CallsMade(fault) ==
    IF fault = "validate" THEN {"validate"}
    ELSE IF fault = "retrieve" THEN {"validate", "retrieve"}
    ELSE {"validate", "retrieve", "generate"}

\* bookkeeping of a chat call answered with an HTTP error: the fault outside
\* the persistence block, the class of the fault inside it, whether the
\* INSERT was refused by a constraint, whether the rollback raised
ChatError(fault, pf, refused, rb) ==
    /\ chat_calls' = chat_calls + 1
    /\ lastCall' = [op |-> "chat", status |-> HandlerStatus(fault, rb),
                    fault |-> fault, calls |-> CallsMade(fault),
                    db |-> PersistClass(pf), refused |-> refused,
                    rollback |-> rb]
    /\ UNCHANGED <<issued, recorded>>

\* bookkeeping of a chat call answered with a ChatResponse; gen is what
\* generate_with_fallback did: the outcomes of the providers, the providers
\* it called, the finish_reason of its result, the messages it was given
ChatReturn(req, gen, pf, refused, resp, row) ==
    /\ chat_calls' = chat_calls + 1
    /\ lastCall' = [op |-> "chat", status |-> 200, fault |-> "none",
                    calls |-> CallsMade("none"),
                    db |-> PersistClass(pf), refused |-> refused,
                    rollback |-> FALSE,
                    request |-> req, generated |-> gen, response |-> resp]
    /\ issued' = [issued EXCEPT ![resp.message_id] = @ + 1]
    /\ recorded' = IF PersistClass(pf) = "before_commit" THEN recorded
                   ELSE recorded \cup {[message_id |-> resp.message_id,
                                        id |-> row.id]}

\* (mutant) the provider the request names is not handed to the factory
PreferredProvider_dropped(req) == None

\* line 142: preferred_provider=request.provider
PreferredProvider(req) == req.provider

\* (mutant) the session entry is created before the request is validated
SessionStep_before_validation(conv, sid, now, fault) ==
    InitSession(conv, sid, now)

\* lines 73-99, the session map after them: the validator runs first, and
\* a request it refuses leaves the map as it is
SessionStep(conv, sid, now, fault) ==
    IF fault = "validate" THEN conv ELSE InitSession(conv, sid, now)

\* (mutant) a missing session entry does not make the append fail
AppendFails_never(conv, sid) == FALSE

\* line 245: conversations[session_id] raises KeyError when the entry is
\* not in the map
AppendFails(conv, sid) == sid \notin DOMAIN conv

\* retriever.retrieve_context(message)["context"]: the text retrieved for
\* the question
retrieve_context(question) == <<"context", question>>

\* (mutant) the first entries of the history are used
LastMessages_first(history) ==
    IF Len(history) > HistoryWindow THEN SubSeq(history, 1, HistoryWindow)
    ELSE history

\* request.conversation_history[-6:]
LastMessages(history) ==
    IF Len(history) > HistoryWindow
    THEN SubSeq(history, Len(history) - HistoryWindow + 1, Len(history))
    ELSE history

\* lines 112-131 (chat, template "chat") and 307-318 (chat_stream, template
\* "stream"): a Message for each of the last entries of the history, when
\* there is one, then the user prompt, a text made of the context and the
\* question
BuildMessages(req, template) ==
    LET used == IF req.conversation_history \in {None, Some(<<>>)} THEN <<>>
                ELSE LastMessages(req.conversation_history[1])
    IN  [i \in 1..Len(used) |->
            [role |-> used[i].role, content |-> used[i].content]]
        \o <<[role |-> "user",
              content |-> [template |-> template,
                           context |-> retrieve_context(req.message),
                           question |-> req.message]]>>

\* line 82
SessionIdOf(req, env) == OrDefault(req.session_id, GenSessionId(env.u_sess))

\* lines 73-99 when the validator raises: line 280, HTTPException(500)
chat_refused(req, env) ==
    /\ conversations' =
           SessionStep(conversations, SessionIdOf(req, env), clock, env.fault)
    /\ UNCHANGED <<feedback_interactions, pending_cleanups>>
    /\ ChatError(env.fault, "none", FALSE, FALSE)

\* lines 101-287, run on the session map base
chat_rest(req, env, base) ==
    LET session_id == SessionIdOf(req, env)
        user_id == OrDefault(req.user_id, Anonymous)
        message_id == MsgId(env.u_msg)
        \* lines 139-143
        llm == generate_with_fallback(PreferredProvider(req), env.providers)
        gen == [outcomes |-> env.providers,
                attempts |-> Attempts(PreferredProvider(req), env.providers),
                finish_reason |-> llm.finish_reason,
                messages |-> BuildMessages(req, "chat")]
        row == FeedbackInteraction(env.u_rec, user_id, session_id, message_id,
                                   clock, req.message, llm)
        pf == PersistFault(feedback_interactions, row, env)
        \* the INSERT was refused by a constraint (IntegrityError)
        refused == pf = "flush" /\ env.db = "none"
        conv1 == AppendTurn(base, session_id, message_id, req.message,
                            llm, clock, env.u_user)
    IN
    IF env.fault \in {"retrieve", "generate"}
    THEN \* a call of lines 103-143 raises
         /\ conversations' = base
         /\ UNCHANGED <<feedback_interactions, pending_cleanups>>
         /\ ChatError(env.fault, "none", FALSE, FALSE)
    ELSE /\ feedback_interactions' = Persist(feedback_interactions, row, pf)
         /\ IF pf # "none" /\ env.rollback
            THEN \* line 238 raises inside the handler of line 226
                 /\ conversations' = base
                 /\ UNCHANGED pending_cleanups
                 /\ ChatError("none", pf, refused, TRUE)
            ELSE IF AppendFails(base, session_id)
            THEN \* line 245 raises KeyError
                 /\ conversations' = base
                 /\ UNCHANGED pending_cleanups
                 /\ ChatError("append", pf, refused, FALSE)
            ELSE IF env.fault = "sources"
            THEN \* line 272 raises, after lines 245-264
                 /\ conversations' = conv1
                 /\ UNCHANGED pending_cleanups
                 /\ ChatError(env.fault, pf, refused, FALSE)
            ELSE /\ conversations' = conv1
                 /\ pending_cleanups' = pending_cleanups + 1
                 /\ ChatReturn(req, gen, pf, refused,
                               ChatResponse(llm, session_id, message_id), row)

\* POST /api/chat/, with no step of another thread during the call
chat(req, env) ==
    /\ chat_calls < MaxChats
    /\ inflight = None
    /\ UNCHANGED <<clock, ticks, last_feedback, inflight>>
    /\ IF env.fault = "validate"
       THEN chat_refused(req, env)
       ELSE chat_rest(req, env,
                      SessionStep(conversations, SessionIdOf(req, env), clock,
                                  env.fault))
    /\ db_open' = SessionClosed(SessionOpened(db_open),
                                HandlerOutcome(lastCall'.status, FALSE))

\* POST /api/chat/ up to line 99: the request is validated and its session
\* entry exists
chat_begin(req, env) ==
    /\ chat_calls < MaxChats
    /\ inflight = None
    /\ UNCHANGED <<clock, ticks, last_feedback>>
    /\ IF env.fault = "validate"
       THEN /\ chat_refused(req, env)
            /\ db_open' = SessionClosed(SessionOpened(db_open),
                                        HandlerOutcome(lastCall'.status, FALSE))
            /\ UNCHANGED inflight
       ELSE /\ conversations' =
                   SessionStep(conversations, SessionIdOf(req, env), clock,
                               env.fault)
            /\ inflight' = Some([request |-> req, env |-> env])
            /\ db_open' = SessionOpened(db_open)
            /\ lastCall' = [op |-> "chat_begin", status |-> 0,
                            session_id |-> SessionIdOf(req, env),
                            created |-> SessionIdOf(req, env) \notin DOMAIN conversations]
            /\ UNCHANGED <<feedback_interactions, pending_cleanups, chat_calls,
                           issued, recorded>>

\* POST /api/chat/ from line 101 on, on the session map as it is by then
chat_end ==
    /\ inflight # None
    /\ inflight' = None
    /\ UNCHANGED <<clock, ticks, last_feedback>>
    /\ chat_rest(inflight[1].request, inflight[1].env, conversations)
    /\ db_open' = SessionClosed(db_open, HandlerOutcome(lastCall'.status, FALSE))

\* the session ids a client may name in a history request
SessionIds == {ClientSession} \cup {GenSessionId(n) : n \in 1..NumSessIds}

\* GET /api/chat/history/{session_id}
get_history(session_id) ==
    /\ inflight = None
    /\ UNCHANGED <<feedback_interactions, conversations, clock, ticks,
                   pending_cleanups, chat_calls, issued, recorded, last_feedback, inflight, db_open>>
    /\ IF session_id \notin DOMAIN conversations
       THEN lastCall' = [op |-> "get_history", status |-> 404,
                         request |-> session_id, body |-> None]
       ELSE lastCall' = [op |-> "get_history", status |-> 200,
                         request |-> session_id,
                         body |-> Some(conversations[session_id])]

\* (mutant) deleting a history also deletes the rows of the session
delete_history_purging(session_id) ==
    /\ inflight = None
    /\ UNCHANGED <<clock, ticks, pending_cleanups, chat_calls, issued, recorded,
                   last_feedback, inflight, db_open>>
    /\ IF session_id \in DOMAIN conversations
       THEN /\ conversations' =
                   [k \in DOMAIN conversations \ {session_id} |-> conversations[k]]
            /\ feedback_interactions' =
                   {r \in feedback_interactions : r.session_id # session_id}
            /\ lastCall' = [op |-> "delete_history", status |-> 200,
                            request |-> session_id]
       ELSE /\ UNCHANGED <<conversations, feedback_interactions>>
            /\ lastCall' = [op |-> "delete_history", status |-> 404,
                            request |-> session_id]

\* (mutant) deleting a history empties the map
delete_history_all(session_id) ==
    /\ inflight = None
    /\ UNCHANGED <<feedback_interactions, clock, ticks, pending_cleanups,
                   chat_calls, issued, recorded, last_feedback, inflight, db_open>>
    /\ IF session_id \in DOMAIN conversations
       THEN /\ conversations' = [k \in {} |-> 0]
            /\ lastCall' = [op |-> "delete_history", status |-> 200,
                            request |-> session_id]
       ELSE /\ UNCHANGED conversations
            /\ lastCall' = [op |-> "delete_history", status |-> 404,
                            request |-> session_id]

\* DELETE /api/chat/history/{session_id}
delete_history(session_id) ==
    /\ inflight = None
    /\ UNCHANGED <<feedback_interactions, clock, ticks, pending_cleanups,
                   chat_calls, issued, recorded, last_feedback, inflight, db_open>>
    /\ IF session_id \in DOMAIN conversations
       THEN /\ conversations' =
                   [k \in DOMAIN conversations \ {session_id} |-> conversations[k]]
            /\ lastCall' = [op |-> "delete_history", status |-> 200,
                            request |-> session_id]
       ELSE /\ UNCHANGED conversations
            /\ lastCall' = [op |-> "delete_history", status |-> 404,
                            request |-> session_id]

\* (mutant) a session expires at SessionTTL seconds
Expired_at_ttl(conv, now) ==
    {k \in DOMAIN conv : now - fromisoformat(conv[k].created_at) >= SessionTTL}

\* lines 371-374: the sessions created more than SessionTTL seconds ago
Expired(conv, now) ==
    {k \in DOMAIN conv : now - fromisoformat(conv[k].created_at) > SessionTTL}

\* the background task a chat call adds before it returns
cleanup_old_sessions ==
    /\ pending_cleanups > 0
    /\ pending_cleanups' = pending_cleanups - 1
    /\ conversations' =
           [k \in DOMAIN conversations \ Expired(conversations, clock) |->
               conversations[k]]
    /\ lastCall' = [op |-> "cleanup_old_sessions", status |-> 0,
                    removed |-> Expired(conversations, clock)]
    /\ UNCHANGED <<feedback_interactions, clock, ticks, chat_calls, issued, recorded,
                   last_feedback, inflight, db_open>>

\* cleanup_old_sessions when chat inserts a session entry (line 94) during
\* the scan of lines 371-374: the iteration raises RuntimeError, the handler
\* of line 381 catches it and no entry is removed
cleanup_interrupted ==
    /\ pending_cleanups > 0
    /\ lastCall.op = "chat_begin"
    /\ lastCall.created
    /\ pending_cleanups' = pending_cleanups - 1
    /\ lastCall' = [op |-> "cleanup_old_sessions", status |-> 0, removed |-> {}]
    /\ UNCHANGED <<feedback_interactions, conversations, clock, ticks, chat_calls,
                   issued, recorded, last_feedback, inflight, db_open>>

\* an event of the stream: f"data: {token}\n\n"
Data(token) == <<"data: ", token>>

StreamErrorText == "Error: I encountered an issue. Please try again."
NoProviderText == "Error: No provider available"
RetrievalErrorText == "Error: retrieval failed"
Done == "[DONE]"

\* gemini_provider.py, GeminiProvider.stream_response: the texts of the chunks
\* that have one, then the error text if the client raises, the apology if
\* the stream ends with no chunk yielded
stream_response(chunks, raises) ==
    LET texts == SelectSeq(chunks, LAMBDA t : t # "")
    IN  IF raises THEN texts \o <<StreamErrorText>>
        ELSE IF Len(texts) > 0 THEN texts
        ELSE <<ApologyText>>

\* lines 301-337: the events generate() yields
generate(fault, chunks, raises) ==
    IF fault = "retrieve" THEN <<Data(RetrievalErrorText)>>
    ELSE IF fault = "no_provider" THEN <<Data(NoProviderText)>>
    ELSE LET tokens == stream_response(chunks, raises)
         IN  [i \in 1..Len(tokens) |-> Data(tokens[i])] \o <<Data(Done)>>

StreamFaults == {"none", "validate", "retrieve", "no_provider"}
ChunkLists == {<<>>, <<"t1">>, <<"", "t1", "t2">>}

\* (mutant) the stream handler initialises the session as chat does
chat_stream_with_session(req, fault, chunks, raises) ==
    /\ inflight = None
    /\ conversations' =
           SessionStep(conversations, OrDefault(req.session_id, GenSessionId(1)),
                       clock, fault)
    /\ UNCHANGED <<feedback_interactions, clock, ticks, pending_cleanups,
                   chat_calls, issued, recorded, last_feedback, inflight,
                   db_open>>
    /\ lastCall' = [op |-> "chat_stream",
                    status |-> IF fault = "validate" THEN 500 ELSE 200,
                    fault |-> fault, request |-> req, messages |-> <<>>,
                    events |-> IF fault = "validate" THEN <<>>
                               ELSE generate(fault, chunks, raises)]

\* POST /api/chat/stream
chat_stream(req, fault, chunks, raises) ==
    /\ inflight = None
    /\ UNCHANGED <<feedback_interactions, conversations, clock, ticks,
                   pending_cleanups, chat_calls, issued, recorded, last_feedback, inflight, db_open>>
    /\ IF fault = "validate"
       THEN \* line 296 raises: line 341, HTTPException(500)
            lastCall' = [op |-> "chat_stream", status |-> 500, fault |-> fault,
                         request |-> req, messages |-> <<>>, events |-> <<>>]
       ELSE lastCall' = [op |-> "chat_stream", status |-> 200, fault |-> fault,
                         request |-> req,
                         \* lines 307-318 come after the retrieval
                         messages |-> IF fault = "retrieve" THEN <<>>
                                      ELSE BuildMessages(req, "stream"),
                         events |-> generate(fault, chunks, raises)]

----------------------------------------------------------------------------
(* The clock *)

Tick(d) ==
    /\ ticks < MaxTicks
    /\ ticks' = ticks + 1
    /\ clock' = clock + d
    /\ lastCall' = NoCall
    /\ UNCHANGED <<feedback_interactions, conversations, pending_cleanups,
                   chat_calls, issued, recorded, last_feedback, inflight, db_open>>

----------------------------------------------------------------------------
(* Specification *)

Init ==
    /\ feedback_interactions = {}
    /\ conversations = [k \in {} |-> 0]
    /\ clock = 0
    /\ ticks = 0
    /\ pending_cleanups = 0
    /\ chat_calls = 0
    /\ issued = [m \in MsgIds |-> 0]
    /\ recorded = {}
    /\ last_feedback = [m \in MsgIds |-> None]
    /\ inflight = None
    /\ db_open = 0
    /\ lastCall = NoCall

----------------------------------------------------------------------------
(* The environment of a chat call *)

\* What the environment does during one chat call:
\*   fault     the call outside the persistence block that raises
\*             ("retrieve" stands for lines 103-135: get_llm_factory,
\*             retrieve_context, get_config), "sources" for Source(**src)
\*   providers what each provider does when generate_with_fallback calls it
\*   db        the call of the persistence block that raises
\*   rollback  whether db.rollback() of line 238 raises
\*   u_sess, u_msg, u_rec, u_user   the values uuid4() returns
Env(fault, providers, db, rollback, u_sess, u_msg, u_rec, u_user) ==
    [fault |-> fault, providers |-> providers, db |-> db, rollback |-> rollback,
     u_sess |-> u_sess, u_msg |-> u_msg, u_rec |-> u_rec, u_user |-> u_user]

\* uuid4() values are compared for equality only, so a draw is a value that
\* some object of the state carries already or the first value none carries
Draws(used, n) ==
    used \cup {k \in 1..n : k \notin used /\ \A j \in 1..n : j \notin used => k <= j}

UsedMsg ==
    {n \in 1..NumMsgIds :
        \/ \E r \in feedback_interactions : r.message_id = MsgId(n)
        \/ issued[MsgId(n)] > 0
        \/ \E k \in DOMAIN conversations :
              \E i \in DOMAIN conversations[k].history :
                 conversations[k].history[i].id = MsgId(n)}

UsedRec == {n \in RecIds : \E r \in feedback_interactions : r.id = n}

UsedSess ==
    {n \in 1..NumSessIds :
        \/ GenSessionId(n) \in DOMAIN conversations
        \/ \E r \in feedback_interactions : r.session_id = GenSessionId(n)}

\* every provider answers
AllAnswer == [p \in ProviderNames |-> "ok"]
\* the default provider answers nothing and is the only one
OnlyDefaultEmpty ==
    [p \in ProviderNames |-> IF p = DefaultProvider THEN "empty" ELSE "unavailable"]
\* the default provider answers nothing, the others answer
DefaultEmpty ==
    [p \in ProviderNames |-> IF p = DefaultProvider THEN "empty" ELSE "ok"]

DefaultReq == [message |-> "q1", conversation_history |-> Some(<<>>),
               session_id |-> None, user_id |-> None, provider |-> None]
NamedReq == [message |-> "q1", conversation_history |-> Some(<<>>),
             session_id |-> Some(ClientSession),
             user_id |-> Some(ClientUser), provider |-> None]
EmptySessionReq == [message |-> "q1", conversation_history |-> Some(<<>>),
                    session_id |-> Some(EmptyStr),
                    user_id |-> None, provider |-> None]

\* The inputs of chat, one per path: a value the path never reads is held at
\* its first value.
\* PlainInputs: the given requests and provider outcomes, no call of chat
\* raises.
PlainInputs(reqs, outcomes) ==
    {<<req, Env("none", o, "none", FALSE, s, m, r, u)>> :
         req \in reqs, o \in outcomes,
         s \in Draws(UsedSess, NumSessIds), m \in Draws(UsedMsg, NumMsgIds),
         r \in Draws(UsedRec, NumRecIds), u \in 1..NumEntryIds}

\* ValidateInputs: the validator refuses the request.
ValidateInputs ==
    {<<DefaultReq, Env("validate", AllAnswer, "none", FALSE, 1, 1, 1, 1)>>}

\* FaultInputs: every fault and every pair of faults, on the default request.
FaultInputs ==
    LET us == Draws(UsedSess, NumSessIds)
        um == Draws(UsedMsg, NumMsgIds)
        ur == Draws(UsedRec, NumRecIds)
        uu == 1..NumEntryIds
        dbs == {"add", "flush", "commit", "refresh", "verify"}
    IN  ValidateInputs
        \cup {<<DefaultReq, Env(f, AllAnswer, "none", FALSE, s, 1, 1, 1)>> :
                 f \in {"retrieve", "generate"}, s \in us}
        \cup {<<DefaultReq, Env("sources", AllAnswer, d, FALSE, s, m, r, u)>> :
                 d \in dbs \cup {"none"}, s \in us, m \in um, r \in ur, u \in uu}
        \cup {<<DefaultReq, Env("none", AllAnswer, d, rb, s, m, r, u)>> :
                 d \in dbs, rb \in BOOLEAN, s \in us, m \in um, r \in ur, u \in uu}

ChatStep(inputs) == \E in \in inputs : chat(in[1], in[2])

FeedbackStepOn(submits) ==
    \E fb \in submits :
        \E env \in FeedbackFaults(feedback_interactions, fb) : submit_feedback(fb, env)

FeedbackStep == FeedbackStepOn(FeedbackSubmits)

\* one submission, for the first message
FirstMessageUp ==
    {[message_id |-> MsgId(1), feedback_type |-> "thumbs_up",
      feedback_comment |-> None]}

StreamStepOn(reqs) ==
    \E req \in reqs, fault \in StreamFaults, chunks \in ChunkLists,
       raises \in BOOLEAN :
        /\ fault # "none" => chunks = <<>> /\ ~raises
        /\ chat_stream(req, fault, chunks, raises)

StreamStep == StreamStepOn({DefaultReq})

\* The store: chat calls with every fault, and feedback submissions
NextStore ==
    \/ ChatStep(PlainInputs({DefaultReq, NamedReq},
                             {AllAnswer, OnlyDefaultEmpty, DefaultEmpty}) \cup FaultInputs)
    \/ FeedbackStep

SpecStore == Init /\ [][NextStore]_vars

\* Every operation of the service, the calls of chat without faults other
\* than a refusal by the validator
Next ==
    \/ ChatStep(PlainInputs({DefaultReq}, {AllAnswer}) \cup ValidateInputs)
    \/ FeedbackStep
    \/ StreamStep
    \/ \E sid \in SessionIds : get_history(sid)
    \/ \E sid \in SessionIds : delete_history(sid)
    \/ cleanup_old_sessions
    \/ \E d \in {SessionTTL + 1} : Tick(d)

Spec == Init /\ [][Next]_vars

\* The chat call by itself: requests that name any provider or none, a
\* session, an empty session id or none, with every outcome of the
\* configured providers
ProviderReqs ==
    {[DefaultReq EXCEPT !.provider = p] :
        p \in {None, Some("gemini"), Some("other"), Some("third"), Some("unknown")}}

NextFallback ==
    ChatStep(PlainInputs(ProviderReqs \cup {NamedReq, EmptySessionReq},
                         ProviderOutcomes))

SpecFallback == Init /\ [][NextFallback]_vars

\* The threads: chat runs on the event loop, in the two steps chat_begin and
\* chat_end, and so do submit_feedback, get_history and delete_history,
\* between the calls of chat;
\* cleanup_old_sessions runs in a worker thread and takes its steps at any
\* time.  The clock advances by more than a day, between calls.
NextRace ==
    \/ \E in \in PlainInputs({DefaultReq, NamedReq}, {AllAnswer}) \cup FaultInputs :
          chat_begin(in[1], in[2])
    \/ chat_end
    \/ cleanup_old_sessions
    \/ cleanup_interrupted
    \/ FeedbackStepOn(FirstMessageUp)
    \/ \E sid \in SessionIds : get_history(sid)
    \/ \E sid \in SessionIds : delete_history(sid)
    \/ \E d \in {SessionTTL + 1} : inflight = None /\ Tick(d)

SpecRace == Init /\ [][NextRace]_vars

\* The messages for the provider: chat and chat_stream calls with no
\* conversation_history and with histories of up to MaxHistory entries
HistoryReqs ==
    {[DefaultReq EXCEPT !.conversation_history = h] : h \in Histories}

NextPrompt ==
    \/ ChatStep(PlainInputs(HistoryReqs, {AllAnswer}))
    \/ StreamStepOn(HistoryReqs)

SpecPrompt == Init /\ [][NextPrompt]_vars

\* The expiry of sessions: chat calls on two sessions, the background task
\* run by itself, the clock advancing by SessionTTL seconds or one more
NextCleanup ==
    \/ ChatStep(PlainInputs({DefaultReq, NamedReq}, {AllAnswer}))
    \/ cleanup_old_sessions
    \/ \E sid \in SessionIds : get_history(sid)
    \/ \E d \in {SessionTTL, SessionTTL + 1} : Tick(d)

SpecCleanup == Init /\ [][NextCleanup]_vars

----------------------------------------------------------------------------
(* Properties *)

Known(m) == \E r \in feedback_interactions : r.message_id = m

IsChat(c) == c.op = "chat"
IsFeedback(c) == c.op = "submit_feedback"

\* the chat call got as far as db.commit() and the commit returned
Committed(c) ==
    /\ IsChat(c)
    /\ c.fault \in {"none", "append", "sources"}
    /\ c.db \in {"none", "after_commit"}

\* C1 (as claimed): a chat call in which a call of the persistence block
\* raises, and nothing outside that block does, is answered with the
\* ChatResponse and never with an HTTP error.
C1_ResponseDespitePersistenceFailure ==
    (IsChat(lastCall) /\ lastCall.db # "none" /\ lastCall.fault = "none")
        => lastCall.status = 200

\* C2 (as claimed): no message_id is carried by the responses of two
\* distinct successful chat calls.
C2_ReturnedMessageIdsDistinct ==
    \A m \in MsgIds : issued[m] <= 1

\* C3 (as claimed): a submission with a valid feedback_type whose
\* message_id matches no row is always answered 404, and changes no row.
C3_UnknownMessageAlways404 ==
    [][(/\ IsFeedback(lastCall')
        /\ lastCall'.feedback_type \in ValidFeedbackTypes
        /\ ~Known(lastCall'.message_id))
          => /\ lastCall'.status = 404
             /\ feedback_interactions' = feedback_interactions]_vars

\* C3 (amended): a submission with a valid feedback_type whose message_id
\* matches no row is answered 404 when the lookup query returns, 500 when
\* the query raises, and in both cases changes no row.
C3_UnknownMessageNotFound ==
    [][(/\ IsFeedback(lastCall')
        /\ lastCall'.feedback_type \in ValidFeedbackTypes
        /\ ~Known(lastCall'.message_id))
          => /\ lastCall'.status = IF lastCall'.db = "query" THEN 500 ELSE 404
             /\ feedback_interactions' = feedback_interactions]_vars

\* a valid submission for an unknown message_id was answered 404 while the
\* table holds rows
C3_Witness ==
    /\ IsFeedback(lastCall)
    /\ lastCall.status = 404
    /\ lastCall.feedback_type \in ValidFeedbackTypes
    /\ ~Known(lastCall.message_id)
    /\ feedback_interactions # {}

\* C4: a submission whose feedback_type is neither thumbs_up nor
\* thumbs_down is answered 400 whether or not its message_id matches a row,
\* and changes no row.
C4_BadTypeRejected ==
    [][(/\ IsFeedback(lastCall')
        /\ lastCall'.feedback_type \notin ValidFeedbackTypes)
          => /\ lastCall'.status = 400
             /\ feedback_interactions' = feedback_interactions]_vars

\* a submission with a bad type and an unknown message_id was answered 400
C4_Witness ==
    /\ IsFeedback(lastCall)
    /\ lastCall.feedback_type \notin ValidFeedbackTypes
    /\ ~Known(lastCall.message_id)
    /\ lastCall.status = 400
    /\ feedback_interactions # {}

\* C5: no two rows of the table have the same message_id; a chat call whose
\* message_id is that of an existing row adds no second row with it.
C5_MessageIdUniqueInStore ==
    \A r1, r2 \in feedback_interactions :
        r1.message_id = r2.message_id => r1 = r2

\* a chat call drew the message_id of an existing row: its INSERT was
\* refused and the table holds one row with that message_id
C5_Witness ==
    /\ IsChat(lastCall)
    /\ lastCall.status = 200
    /\ lastCall.refused
    /\ Cardinality({r \in feedback_interactions :
                       r.message_id = lastCall.response.message_id}) = 1

\* C6 (as claimed): after a chat call in which a call of the persistence
\* block raised, the table holds exactly the rows it held before the call.
C6_FailureLeavesStoreAsBefore ==
    [][(IsChat(lastCall') /\ lastCall'.db # "none")
          => feedback_interactions' = feedback_interactions]_vars

\* C6 (amended): when add, flush or commit raised, the table holds exactly
\* the rows it held before the call; when the refresh or the verification
\* query raised, after the commit, the table holds the rows it held before
\* and exactly one more, the row of this call.
C6_RollbackKeepsStore ==
    [][/\ (IsChat(lastCall') /\ lastCall'.db = "before_commit")
            => feedback_interactions' = feedback_interactions
       /\ (IsChat(lastCall') /\ lastCall'.db = "after_commit")
            => /\ feedback_interactions \subseteq feedback_interactions'
               /\ Cardinality(feedback_interactions' \ feedback_interactions) = 1
      ]_vars

\* a call of the persistence block raised before the commit returned, in a
\* chat call made while the table held rows
C6_Witness ==
    /\ IsChat(lastCall)
    /\ lastCall.db = "before_commit"
    /\ ~lastCall.refused
    /\ feedback_interactions # {}

\* C7: the columns of a row other than the feedback columns never change,
\* and a row changes only in a submit_feedback call that is acknowledged and
\* names the message_id of that row.
C7_OnlyFeedbackFieldsMutated ==
    [][\A r \in feedback_interactions : \A r2 \in feedback_interactions' :
          r2.id = r.id =>
             /\ Immutable(r2) = Immutable(r)
             /\ r2 # r => /\ IsFeedback(lastCall')
                          /\ lastCall'.status = 200
                          /\ lastCall'.message_id = r.message_id]_vars

\* a submission was acknowledged and replaced the feedback of one of two rows
C7_Witness ==
    /\ IsFeedback(lastCall)
    /\ lastCall.status = 200
    /\ lastCall.replaced_type # None
    /\ Cardinality(feedback_interactions) >= 2

\* C8: the feedback_type and the feedback_comment of a row are those of the
\* last acknowledged submission for its message_id, the comment absent when
\* that submission carried none.
C8_LastWriteWins ==
    \A m \in MsgIds :
        last_feedback[m] # None =>
            \E r \in feedback_interactions :
                /\ r.message_id = m
                /\ r.feedback_type = Some(last_feedback[m][1].feedback_type)
                /\ r.feedback_comment = last_feedback[m][1].feedback_comment

\* a submission without comment replaced one of the other type that had a
\* comment
C8_Witness ==
    /\ IsFeedback(lastCall)
    /\ lastCall.status = 200
    /\ lastCall.replaced_type = Some("thumbs_up")
    /\ lastCall.replaced_comment # None
    /\ lastCall.feedback_type = "thumbs_down"
    /\ lastCall.feedback_comment = None

\* C9: a row that is in the table is in the table after every operation.
C9_NoRecordDeleted ==
    [][\A r \in feedback_interactions :
          \E r2 \in feedback_interactions' :
             r2.id = r.id /\ r2.message_id = r.message_id]_vars

\* cleanup removed the session of a row that is still in the table
C9_Witness ==
    /\ lastCall.op = "cleanup_old_sessions"
    /\ \E r \in feedback_interactions : r.session_id \in lastCall.removed

\* C10 (as claimed): a chat call adds exactly one row when no call of the
\* persistence block raises, and none when one raises or when the call ends
\* in an error before the persistence block.
C10_OneRowPerPersistedTurn ==
    [][IsChat(lastCall') =>
          Cardinality(feedback_interactions') =
             Cardinality(feedback_interactions)
               + (IF /\ lastCall'.fault \in {"none", "sources"}
                     /\ lastCall'.db = "none"
                  THEN 1 ELSE 0)]_vars

\* C10 (amended): a chat call adds exactly one row when its db.commit()
\* returns, also when the refresh or the verification query raises
\* afterwards, and none when add, flush or commit raises or when the call
\* ends in an error before the persistence block.
C10_OneRowPerCommittedTurn ==
    [][IsChat(lastCall') =>
          Cardinality(feedback_interactions') =
             Cardinality(feedback_interactions)
               + (IF Committed(lastCall') THEN 1 ELSE 0)]_vars

\* a chat call returned its response after the refresh or the verification
\* query raised, and its row is in the table
C10_Witness ==
    /\ IsChat(lastCall)
    /\ lastCall.status = 200
    /\ lastCall.db = "after_commit"
    /\ Known(lastCall.response.message_id)

\* C11: in a chat call, generate_with_fallback calls first the provider the
\* request names when it is named and available, else the default; it calls
\* available providers only, none twice, the next one only after the one
\* before failed (empty answer or exception), and stops only at a provider
\* that answers or when every available provider was called; the result
\* handed to chat is that of the last provider called.
C11_ProviderFallback ==
    (IsChat(lastCall) /\ lastCall.status = 200) =>
        LET pref == lastCall.request.provider
            out == lastCall.generated.outcomes
            tried == lastCall.generated.attempts
            n == Len(tried)
            usable == {p \in ProviderNames : out[p] # "unavailable"}
            last == tried[n]
        IN  /\ n >= 1
            /\ tried[1] = IF pref # None /\ pref[1] \in usable
                           THEN pref[1] ELSE DefaultProvider
            /\ \A i \in 1..n : tried[i] \in usable
            /\ \A i, j \in 1..n : tried[i] = tried[j] => i = j
            /\ \A i \in 1..(n - 1) : out[tried[i]] # "ok"
            /\ out[last] # "ok" => {tried[i] : i \in 1..n} = usable
            /\ lastCall.response.provider_used = last
            /\ lastCall.response.response = ProviderResult(last, out[last]).content
            /\ lastCall.generated.finish_reason =
                   IF out[last] = "ok" THEN "stop" ELSE "error"

\* the provider the request names raised, the default answered nothing and
\* the third provider called gave the answer
C11_Witness ==
    /\ IsChat(lastCall)
    /\ lastCall.status = 200
    /\ lastCall.request.provider = Some("third")
    /\ lastCall.generated.outcomes["third"] = "raises"
    /\ lastCall.generated.attempts = <<"third", "gemini", "other">>
    /\ lastCall.response.provider_used = "other"
    /\ lastCall.response.success

\* C12 (as claimed): the events of every stream POST /api/chat/stream
\* produces end with the sentinel event "data: [DONE]".
C12_StreamEndsWithDone ==
    (lastCall.op = "chat_stream" /\ lastCall.status = 200) =>
        /\ Len(lastCall.events) >= 1
        /\ lastCall.events[Len(lastCall.events)] = Data(Done)

\* C13: a chat call in which no call raises is answered with a
\* ChatResponse also when the result of the providers is degraded (the last
\* provider called answered nothing or raised): the response then has
\* success false and the degraded text; success is true exactly when
\* finish_reason is not "error".
C13_DegradedResponse ==
    IsChat(lastCall) =>
        /\ (lastCall.fault = "none" /\ ~lastCall.rollback) => lastCall.status = 200
        /\ lastCall.status = 200 =>
              LET g == lastCall.generated
                  last == g.attempts[Len(g.attempts)]
                  degraded == g.outcomes[last] \in {"empty", "raises"}
              IN  /\ lastCall.response.success <=> g.finish_reason # "error"
                  /\ degraded =>
                        /\ g.finish_reason = "error"
                        /\ ~lastCall.response.success
                        /\ lastCall.response.response =
                               IF g.outcomes[last] = "empty" THEN ApologyText
                               ELSE ProviderErrorText

\* every provider failed, the last one by an exception, and the call was
\* answered with a response that is not a success
C13_Witness ==
    /\ IsChat(lastCall)
    /\ lastCall.status = 200
    /\ Len(lastCall.generated.attempts) = Len(Providers)
    /\ lastCall.generated.finish_reason = "error"
    /\ lastCall.response.response = ProviderErrorText
    /\ ~lastCall.response.success

\* C14: the feedback_type of every row is absent, thumbs_up or thumbs_down.
C14_FeedbackTypeValues ==
    \A r \in feedback_interactions :
        r.feedback_type \in {None, Some("thumbs_up"), Some("thumbs_down")}

\* a submission of another feedback_type for a row that has feedback was
\* refused, and rows with and without feedback are in the table
C14_Witness ==
    /\ IsFeedback(lastCall)
    /\ lastCall.feedback_type = "neutral"
    /\ lastCall.status = 400
    /\ \E r \in feedback_interactions :
          r.message_id = lastCall.message_id /\ r.feedback_type = Some("thumbs_down")
    /\ \E r \in feedback_interactions : r.feedback_type = None

\* C15: a chat or chat_stream request the validator refuses is answered
\* with an error (HTTP 500) and nothing else happens: no call after the
\* validator is made, no stream is produced, the conversations map, the
\* table and the background tasks are as before.
C15_ValidationRejectsFirst ==
    [][/\ (IsChat(lastCall') /\ lastCall'.fault = "validate") =>
            /\ lastCall'.status = 500
            /\ lastCall'.calls = {"validate"}
            /\ conversations' = conversations
            /\ feedback_interactions' = feedback_interactions
            /\ pending_cleanups' = pending_cleanups
            /\ issued' = issued
       /\ (lastCall'.op = "chat_stream" /\ lastCall'.fault = "validate") =>
            /\ lastCall'.status = 500
            /\ lastCall'.events = <<>>
            /\ conversations' = conversations
            /\ feedback_interactions' = feedback_interactions
            /\ pending_cleanups' = pending_cleanups
      ]_vars

\* the validator refused a chat request that names no session, after a
\* chat call had created a session and a row
C15_Witness ==
    /\ IsChat(lastCall)
    /\ lastCall.fault = "validate"
    /\ lastCall.status = 500
    /\ chat_calls = 2
    /\ Cardinality(DOMAIN conversations) = 1
    /\ Cardinality(feedback_interactions) = 1

C17_LostSessionFailsAppend ==
    [][/\ (inflight # None /\ inflight' = None) =>
            LET sid == SessionIdOf(inflight[1].request, inflight[1].env)
                gone == sid \notin DOMAIN conversations
                earlier == lastCall'.fault \in {"retrieve", "generate"}
                              \/ lastCall'.rollback
            IN  /\ (gone /\ ~earlier) =>
                      /\ lastCall'.fault = "append"
                      /\ lastCall'.status = 500
                      /\ conversations' = conversations
                /\ lastCall'.fault = "append" => gone
       /\ (inflight # None /\ inflight' # None
              /\ DOMAIN conversations' # DOMAIN conversations) =>
            lastCall'.op = "cleanup_old_sessions"
      ]_vars

\* cleanup removed the session of a chat call between its two steps: the
\* call saved its row and was answered 500 for the failed append
C17_Witness ==
    /\ IsChat(lastCall)
    /\ lastCall.fault = "append"
    /\ lastCall.status = 500
    /\ lastCall.db = "none"
    /\ Cardinality(feedback_interactions) = 2
    /\ DOMAIN conversations = {}

\* C18: the database session get_db opens for a request is closed when the
\* handler is left, however it is left, and closed once: exactly one
\* session is open while a chat call is between its two steps, and none is
\* open once a call of chat or submit_feedback is over.
C18_SessionClosedOnce ==
    db_open = IF inflight # None THEN 1 ELSE 0

\* a chat call that held its session open over both steps was left by an
\* HTTPException, and no session is open
C18_Witness ==
    /\ IsChat(lastCall)
    /\ lastCall.status = 500
    /\ lastCall.fault = "append"
    /\ inflight = None
    /\ db_open = 0

\* C19: when a chat call is answered with a response, the conversations map
\* has an entry for the session_id of the response, and the last two entries
\* of its history are the user message of the call and then the reply, with
\* the message_id of the response as id; the session_id of the response is
\* that of the request when the request has a non-empty one, else a
\* generated "session_" id.
C19_HistoryAfterChat ==
    (IsChat(lastCall) /\ lastCall.status = 200) =>
        LET req == lastCall.request
            resp == lastCall.response
            sid == resp.session_id
        IN  /\ sid \in DOMAIN conversations
            /\ LET h == conversations[sid].history
                    n == Len(h)
                IN  /\ n >= 2
                    /\ h[n - 1].role = "user"
                    /\ h[n - 1].content = req.message
                    /\ h[n].role = "assistant"
                    /\ h[n].id = resp.message_id
                    /\ h[n].content = resp.response
            /\ IF req.session_id \notin {None, Some(EmptyStr)}
               THEN sid = req.session_id[1]
               ELSE \E n \in 1..NumSessIds : sid = GenSessionId(n)

\* the second call on the session a client names: the history has four
\* entries and ends with the reply of this call
C19_Witness ==
    /\ IsChat(lastCall)
    /\ lastCall.status = 200
    /\ lastCall.request.session_id = Some(ClientSession)
    /\ lastCall.response.session_id = ClientSession
    /\ Len(conversations[ClientSession].history) = 4
    /\ conversations[ClientSession].history[4].id = lastCall.response.message_id
    /\ conversations[ClientSession].history[2].id # lastCall.response.message_id

\* C20: get_history and delete_history for a session_id that is not in the
\* conversations map are answered 404 and leave the map as it is;
\* delete_history for a session_id that is in the map removes that entry and
\* no other; an entry comes (back) into the map only by a chat call, with
\* no history but that of this call.
C20_HistoryEndpoints ==
    [][/\ (/\ lastCall'.op \in {"get_history", "delete_history"}
           /\ lastCall'.request \notin DOMAIN conversations)
            => /\ lastCall'.status = 404
               /\ conversations' = conversations
       /\ (/\ lastCall'.op = "delete_history"
           /\ lastCall'.request \in DOMAIN conversations)
            => /\ lastCall'.status = 200
               /\ DOMAIN conversations' =
                      DOMAIN conversations \ {lastCall'.request}
               /\ \A k \in DOMAIN conversations' :
                      conversations'[k] = conversations[k]
       /\ \A sid \in DOMAIN conversations' \ DOMAIN conversations :
             /\ lastCall'.op \in {"chat", "chat_begin"}
             /\ conversations'[sid].message_count <= 1
             /\ Len(conversations'[sid].history) =
                    2 * conversations'[sid].message_count
      ]_vars

\* get_history is answered 404 for the session of a chat call, which
\* delete_history removed, while another session is in the map
C20_Witness ==
    /\ lastCall.op = "get_history"
    /\ lastCall.status = 404
    /\ ticks = 0
    /\ \E r \in feedback_interactions : r.session_id = lastCall.request
    /\ Cardinality(DOMAIN conversations) = 1

\* C21: a run of cleanup_old_sessions by itself removes the sessions whose
\* created_at is more than 86400 seconds before the current time and no
\* other, and leaves the entries it keeps as they are.
C21_CleanupRemovesExpired ==
    [][pending_cleanups' = pending_cleanups - 1 =>
          /\ lastCall'.op = "cleanup_old_sessions"
          /\ DOMAIN conversations' =
                 {k \in DOMAIN conversations :
                     clock - conversations[k].created_at[2] <= 86400}
          /\ \A k \in DOMAIN conversations' : conversations'[k] = conversations[k]
          /\ lastCall'.removed = DOMAIN conversations \ DOMAIN conversations'
          /\ feedback_interactions' = feedback_interactions]_vars

\* a run removed a session created 86401 seconds before and kept one
\* created later
C21_Witness ==
    /\ lastCall.op = "cleanup_old_sessions"
    /\ lastCall.removed # {}
    /\ clock = SessionTTL + 1
    /\ \E k \in DOMAIN conversations : conversations[k].created_at = isoformat(clock)

\* C22: the messages chat and chat_stream build for the provider are the
\* last min(6, n) entries of the n entries of the conversation_history of
\* the request, in their order, with their roles and contents, and then one
\* user message made of the retrieved context and the question; with no
\* history, or an empty one, that message alone.
C22_MessagesForProvider ==
    LET answered == \/ IsChat(lastCall) /\ lastCall.status = 200
                    \/ /\ lastCall.op = "chat_stream"
                       /\ lastCall.fault \in {"none", "no_provider"}
        msgs == IF IsChat(lastCall) THEN lastCall.generated.messages
                ELSE lastCall.messages
        req == lastCall.request
        h == IF req.conversation_history = None THEN <<>>
             ELSE req.conversation_history[1]
        n == Len(h)
        k == IF n < 6 THEN n ELSE 6
    IN  answered =>
            /\ Len(msgs) = k + 1
            /\ \A i \in 1..k :
                  /\ msgs[i].role = h[n - k + i].role
                  /\ msgs[i].content = h[n - k + i].content
            /\ msgs[k + 1].role = "user"
            /\ msgs[k + 1].content.context = retrieve_context(req.message)
            /\ msgs[k + 1].content.question = req.message

\* a chat call whose request has a history of seven entries: the messages
\* are the entries 2 to 7 and the prompt
C22_Witness ==
    /\ IsChat(lastCall)
    /\ lastCall.status = 200
    /\ lastCall.request.conversation_history # None
    /\ Len(lastCall.request.conversation_history[1]) = 7
    /\ Len(lastCall.generated.messages) = 7
    /\ lastCall.generated.messages[1].content = <<"h", 2>>

\* C23 (as stated): a submit_feedback with a valid feedback_type and the
\* message_id of a chat response returned earlier is never answered 404, and
\* when it is acknowledged the record with that message_id carries the
\* feedback sent.
C23_FeedbackOnReturnedMessage ==
    (/\ IsFeedback(lastCall)
     /\ lastCall.feedback_type \in ValidFeedbackTypes
     /\ lastCall.message_id \in MsgIds
     /\ issued[lastCall.message_id] > 0) =>
        /\ lastCall.status # 404
        /\ lastCall.status = 200 =>
              \E r \in feedback_interactions :
                 /\ r.message_id = lastCall.message_id
                 /\ r.feedback_type = Some(lastCall.feedback_type)

\* C23 (amended): the record of a chat turn that was answered with a
\* ChatResponse and whose db.commit() returned stays in the store under the
\* message_id of the response; a later submit_feedback with that message_id
\* and a valid feedback_type is answered 200 when none of its database calls
\* raises (500 otherwise, never 404), and an acknowledged one has written
\* its feedback_type and comment to the record of that turn.
C23_FeedbackOnRecordedTurn ==
    \A t \in recorded :
        /\ \E r \in feedback_interactions :
              r.id = t.id /\ r.message_id = t.message_id
        /\ (/\ IsFeedback(lastCall)
            /\ lastCall.message_id = t.message_id
            /\ lastCall.feedback_type \in ValidFeedbackTypes) =>
               /\ lastCall.status \in {200, 500}
               /\ lastCall.db = "none" => lastCall.status = 200
               /\ lastCall.status = 200 =>
                     \E r \in feedback_interactions :
                        /\ r.id = t.id
                        /\ r.message_id = t.message_id
                        /\ r.feedback_type = Some(lastCall.feedback_type)
                        /\ r.feedback_comment = lastCall.feedback_comment

\* feedback acknowledged for a recorded turn, while another chat response
\* carried a message_id that has no record
C23_Witness ==
    /\ IsFeedback(lastCall)
    /\ lastCall.status = 200
    /\ \E t \in recorded : t.message_id = lastCall.message_id
    /\ \E m \in MsgIds : issued[m] > 0 /\ ~Known(m)

C25_ErrorLeavesNoTrace ==
    [][(IsChat(lastCall') /\ chat_calls' = chat_calls + 1
           /\ lastCall'.status = 500) =>
          /\ feedback_interactions' = feedback_interactions
          /\ \A k \in DOMAIN conversations' :
                conversations'[k].history =
                    IF k \in DOMAIN conversations
                    THEN conversations[k].history ELSE <<>>
      ]_vars

\* C26: every session of the conversations map has two history entries per
\* counted message, a user entry followed by an assistant entry each time;
\* a chat call answered with a ChatResponse leaves its session with
\* message_count one higher and the history two entries longer than before
\* (than 0 and empty when the call created the session).
C26_HistoryMatchesCount ==
    [][/\ \A k \in DOMAIN conversations' :
             LET h == conversations'[k].history
             IN  /\ Len(h) = 2 * conversations'[k].message_count
                 /\ \A i \in DOMAIN h :
                       h[i].role = IF i % 2 = 1 THEN "user" ELSE "assistant"
       /\ (IsChat(lastCall') /\ chat_calls' = chat_calls + 1
              /\ lastCall'.status = 200) =>
             LET sid == lastCall'.response.session_id
                 had == sid \in DOMAIN conversations
             IN  /\ sid \in DOMAIN conversations'
                 /\ conversations'[sid].message_count =
                       (IF had THEN conversations[sid].message_count ELSE 0) + 1
                 /\ Len(conversations'[sid].history) =
                       (IF had THEN Len(conversations[sid].history) ELSE 0) + 2
      ]_vars

\* the second successful chat call on a session: two messages counted, four
\* history entries
C26_Witness ==
    /\ IsChat(lastCall)
    /\ lastCall.status = 200
    /\ \E k \in DOMAIN conversations :
          /\ k = lastCall.response.session_id
          /\ conversations[k].message_count = 2
          /\ Len(conversations[k].history) = 4

\* C27: in every record feedback_timestamp is present exactly when
\* feedback_type is present, and feedback_comment is present only when
\* feedback_type is present.
C27_FeedbackFieldsTogether ==
    \A r \in feedback_interactions :
        /\ (r.feedback_timestamp # None) <=> (r.feedback_type # None)
        /\ (r.feedback_comment # None) => (r.feedback_type # None)

\* one record with feedback and a comment, one with feedback and no
\* comment
C27_Witness ==
    /\ \E r \in feedback_interactions :
          /\ r.feedback_type # None
          /\ r.feedback_comment # None
          /\ r.feedback_timestamp # None
    /\ \E r \in feedback_interactions :
          /\ r.feedback_type # None
          /\ r.feedback_comment = None
    /\ IsFeedback(lastCall)
    /\ lastCall.status = 200

\* C28: a record that carries a feedback_type carries one in every later
\* state, 'thumbs_up' or 'thumbs_down': no operation removes the record or
\* sets its feedback_type back to absent.
C28_FeedbackNotRetracted ==
    [][\A r \in feedback_interactions :
          r.feedback_type # None =>
             \E r2 \in feedback_interactions' :
                /\ r2.id = r.id
                /\ r2.message_id = r.message_id
                /\ r2.feedback_type \in {Some("thumbs_up"), Some("thumbs_down")}
      ]_vars

\* feedback acknowledged on a record that carried the same feedback_type
\* already
C28_Witness ==
    /\ IsFeedback(lastCall)
    /\ lastCall.status = 200
    /\ lastCall.replaced_type = Some(lastCall.feedback_type)
    /\ \E r \in feedback_interactions :
          /\ r.message_id = lastCall.message_id
          /\ r.feedback_type = Some(lastCall.feedback_type)

\* C29: a step of a chat call leaves the created_at of every session that
\* exists before it as it is, the session it uses included; and the cleanup
\* run that follows a completed chat call removes every session created
\* more than 86400 seconds before, the session of that call included.
C29_ChatKeepsCreatedAt ==
    [][/\ (\/ IsChat(lastCall') /\ chat_calls' = chat_calls + 1
           \/ inflight = None /\ inflight' # None) =>
            \A k \in DOMAIN conversations :
               /\ k \in DOMAIN conversations'
               /\ conversations'[k].created_at = conversations[k].created_at
       /\ (IsChat(lastCall) /\ lastCall.status = 200
              /\ lastCall'.op = "cleanup_old_sessions") =>
            \A k \in DOMAIN conversations :
               clock - fromisoformat(conversations[k].created_at) > 86400
                  => k \notin DOMAIN conversations'
      ]_vars

\* a chat call was recorded on a session more than 86400 seconds after the
\* session was created, and the cleanup run after it removed the session
C29_Witness ==
    /\ lastCall.op = "cleanup_old_sessions"
    /\ ClientSession \in lastCall.removed
    /\ \E r \in feedback_interactions :
          /\ r.session_id = ClientSession
          /\ r.timestamp = clock
          /\ clock > SessionTTL
          /\ [message_id |-> r.message_id, id |-> r.id] \in recorded
    /\ \E r \in feedback_interactions :
          /\ r.session_id = ClientSession
          /\ r.timestamp = 0

\* C30: a call of POST /api/chat/stream, on every path, leaves the store,
\* the conversations map and the scheduled cleanups as they are, hands out
\* no message_id and records no turn: its answer carries no message_id, and
\* the message_ids known to the store, the histories and the responses are
\* those known before.
C30_StreamHasNoEffect ==
    [][lastCall'.op = "chat_stream" =>
          /\ feedback_interactions' = feedback_interactions
          /\ conversations' = conversations
          /\ pending_cleanups' = pending_cleanups
          /\ issued' = issued
          /\ recorded' = recorded
          /\ last_feedback' = last_feedback
          /\ UsedMsg' = UsedMsg
          /\ "message_id" \notin DOMAIN lastCall'
      ]_vars

\* a stream that sent tokens and the sentinel while a session and a record
\* of an earlier chat call exist
C30_Witness ==
    /\ lastCall.op = "chat_stream"
    /\ lastCall.status = 200
    /\ Len(lastCall.events) > 1
    /\ feedback_interactions # {}
    /\ DOMAIN conversations # {}
    /\ pending_cleanups > 0

====
